---- MODULE Spec2Model ----
(***************************************************************************)
(* Model of the Qarnot MCP server: the credential resolver, the token      *)
(* masking helper, the eight tool handlers of tools.py and the QarnotClient *)
(* of client.py they drive.                                                 *)
(*                                                                         *)
(* Credentials and header values are sequences of one-character strings,   *)
(* so that slicing, lower-casing, trimming and substring tests are         *)
(* computed as the Python code computes them.                               *)
(***************************************************************************)
EXTENDS Integers, Sequences, FiniteSets, TLC

VARIABLES
    call,     \* slot -> the inbound tool call [tool, args, ctx]
    pc,       \* slot -> "pending" | "awaiting" | "returned"
    heap,     \* the QarnotClient instances constructed so far
    client,   \* slot -> index into heap of the handler's local `client`, 0 if unbound
    sent,     \* slot -> the HTTP requests the invocation issued
    log,      \* slot -> the log records the invocation emitted
    result,   \* slot -> how the invocation ended
    received, \* slot -> the responses the transport gave the invocation
    transports, \* the httpx.AsyncClient objects created so far
    remote,   \* the responses the remote service may give in this run
    arg,      \* the input of a pure function under check
    ret       \* its output

vars == <<call, pc, heap, client, sent, log, result, received, transports, remote, arg, ret>>

handlerVars == <<call, pc, heap, client, sent, log, result, received, transports, remote>>

----------------------------------------------------------------------------
(* Bounds *)

MaxTokenLen == 13
MaxBodyLen == 3
MaxInstanceCount == 2
NumConcurrent == 2
MaxRequests == 5

----------------------------------------------------------------------------
(* Python strings as sequences of characters *)

\* Python's None where a string is expected
None == <<"None">>

UpperAlpha == <<"A","B","C","D","E","F","G","H","I","J","K","L","M",
                "N","O","P","Q","R","S","T","U","V","W","X","Y","Z">>
LowerAlpha == <<"a","b","c","d","e","f","g","h","i","j","k","l","m",
                "n","o","p","q","r","s","t","u","v","w","x","y","z">>

LowerChar(c) ==
    IF \E k \in 1..26 : UpperAlpha[k] = c
    THEN LowerAlpha[CHOOSE k \in 1..26 : UpperAlpha[k] = c]
    ELSE c

\* str.lower()
Lower(s) == [k \in 1..Len(s) |-> LowerChar(s[k])]

\* the characters str.strip() removes
Whitespace == {" ", "\t"}

RECURSIVE LStrip(_)
LStrip(s) ==
    IF s # <<>> /\ Head(s) \in Whitespace THEN LStrip(Tail(s)) ELSE s

RECURSIVE RStrip(_)
RStrip(s) ==
    IF s # <<>> /\ s[Len(s)] \in Whitespace
    THEN RStrip(SubSeq(s, 1, Len(s) - 1))
    ELSE s

\* str.strip()
Strip(s) == RStrip(LStrip(s))

\* str.startswith(p)
StartsWith(s, p) == Len(s) >= Len(p) /\ SubSeq(s, 1, Len(p)) = p

\* s[n:]
SliceFrom(s, n) == SubSeq(s, n + 1, Len(s))

\* s[:n]
SliceTo(s, n) == SubSeq(s, 1, IF Len(s) < n THEN Len(s) ELSE n)

\* s[-n:]
SliceLast(s, n) == SubSeq(s, IF Len(s) < n THEN 1 ELSE Len(s) - n + 1, Len(s))

\* t in s
Contains(s, t) ==
    \E k \in 0..Len(s) : k + Len(t) <= Len(s) /\ SubSeq(s, k + 1, k + Len(t)) = t

\* truthiness of an optional string
Truthy(s) == s # None /\ s # <<>>

\* All strings over alphabet A of length at most n
Strings(A, n) == UNION {[1..k -> A] : k \in 0..n}

----------------------------------------------------------------------------
(* tools.py: _mask_token *)

FixedMask == <<"*", "*", "*">>
Ellipsis == <<".", ".", ".">>

\* variant: the length test off by one (`< 12`)
_mask_token_short(token) ==
    IF Len(token) < 12
    THEN FixedMask
    ELSE SliceTo(token, 4) \o Ellipsis \o SliceLast(token, 4)

_mask_token(token) ==
    IF Len(token) <= 12
    THEN FixedMask
    ELSE SliceTo(token, 4) \o Ellipsis \o SliceLast(token, 4)

----------------------------------------------------------------------------
(* tools.py: get_api_key_from_context *)

\* a log record: the message text around the interpolated values, the masked
\* token it interpolates (empty if none) and its other interpolated values
LogRecord(level, msg, token, fields) ==
    [level |-> level, msg |-> msg, token |-> token, fields |-> fields]

\* dict.get(key): None when the key is absent
HeadersGet(headers, key) ==
    IF key \in DOMAIN headers THEN headers[key] ELSE None

\* a or b
Or(a, b) == IF Truthy(a) THEN a ELSE b

\* getattr(request_context, "headers", {}) or {}
ContextHeaders(ctx) == IF ctx.has_headers THEN ctx.headers ELSE <<>>

BearerPrefix == <<"b", "e", "a", "r", "e", "r", " ">>

AuthRequired == "Authentication required. Please provide an API key via Authorization header."

Returned(value, logs) == [raised |-> FALSE, value |-> value, logs |-> logs]

Raised(message, logs) == [raised |-> TRUE, value |-> None, message |-> message, logs |-> logs]

\* variant: the scheme keyword compared without lower-casing
get_api_key_from_context_case_sensitive(ctx) ==
    IF ~ctx.has_request_context
    THEN Raised(AuthRequired, <<>>)
    ELSE
    LET headers == ContextHeaders(ctx)
        auth_header == Or(HeadersGet(headers, "authorization"), HeadersGet(headers, "Authorization"))
        api_key == Or(HeadersGet(headers, "x-api-key"), HeadersGet(headers, "X-Api-Key"))
    IN  IF Truthy(auth_header)
        THEN IF StartsWith(auth_header, <<"B", "e", "a", "r", "e", "r", " ">>)
             THEN LET token == Strip(SliceFrom(auth_header, 7))
                  IN  Returned(token,
                        <<LogRecord("INFO", "API key extracted from Authorization header: ",
                                    _mask_token(token), <<>>)>>)
             ELSE Returned(auth_header, <<>>)
        ELSE IF Truthy(api_key)
             THEN Returned(api_key,
                        <<LogRecord("INFO", "API key extracted from X-Api-Key header: ",
                                    _mask_token(api_key), <<>>)>>)
             ELSE Raised(AuthRequired, <<>>)

\* variant: X-Api-Key looked up before Authorization
get_api_key_from_context_api_key_first(ctx) ==
    IF ~ctx.has_request_context
    THEN Raised(AuthRequired, <<>>)
    ELSE
    LET headers == ContextHeaders(ctx)
        auth_header == Or(HeadersGet(headers, "authorization"), HeadersGet(headers, "Authorization"))
        api_key == Or(HeadersGet(headers, "x-api-key"), HeadersGet(headers, "X-Api-Key"))
    IN  IF Truthy(api_key)
        THEN Returned(api_key,
                        <<LogRecord("INFO", "API key extracted from X-Api-Key header: ",
                                    _mask_token(api_key), <<>>)>>)
        ELSE IF Truthy(auth_header)
             THEN IF StartsWith(Lower(auth_header), BearerPrefix)
                  THEN LET token == Strip(SliceFrom(auth_header, 7))
                       IN  Returned(token,
                            <<LogRecord("INFO", "API key extracted from Authorization header: ",
                                        _mask_token(token), <<>>)>>)
                  ELSE Returned(auth_header, <<>>)
             ELSE Raised(AuthRequired, <<>>)

\* variant: an empty credential instead of the Authentication-Required error
get_api_key_from_context_anonymous(ctx) ==
    IF ~ctx.has_request_context
    THEN Returned(<<>>, <<>>)
    ELSE
    LET headers == ContextHeaders(ctx)
        auth_header == Or(HeadersGet(headers, "authorization"), HeadersGet(headers, "Authorization"))
        api_key == Or(HeadersGet(headers, "x-api-key"), HeadersGet(headers, "X-Api-Key"))
    IN  IF Truthy(auth_header)
        THEN IF StartsWith(Lower(auth_header), BearerPrefix)
             THEN LET token == Strip(SliceFrom(auth_header, 7))
                  IN  Returned(token,
                        <<LogRecord("INFO", "API key extracted from Authorization header: ",
                                    _mask_token(token), <<>>)>>)
             ELSE Returned(auth_header, <<>>)
        ELSE IF Truthy(api_key)
             THEN Returned(api_key,
                        <<LogRecord("INFO", "API key extracted from X-Api-Key header: ",
                                    _mask_token(api_key), <<>>)>>)
             ELSE Returned(<<>>, <<>>)

get_api_key_from_context(ctx) ==
    IF ~ctx.has_request_context
    THEN Raised(AuthRequired, <<>>)
    ELSE
    LET headers == ContextHeaders(ctx)
        auth_header == Or(HeadersGet(headers, "authorization"), HeadersGet(headers, "Authorization"))
        api_key == Or(HeadersGet(headers, "x-api-key"), HeadersGet(headers, "X-Api-Key"))
    IN  IF Truthy(auth_header)
        THEN IF StartsWith(Lower(auth_header), BearerPrefix)
             THEN LET token == Strip(SliceFrom(auth_header, 7))
                  IN  Returned(token,
                        <<LogRecord("INFO", "API key extracted from Authorization header: ",
                                    _mask_token(token), <<>>)>>)
             ELSE Returned(auth_header, <<>>)
        ELSE IF Truthy(api_key)
             THEN Returned(api_key,
                        <<LogRecord("INFO", "API key extracted from X-Api-Key header: ",
                                    _mask_token(api_key), <<>>)>>)
             ELSE Raised(AuthRequired, <<>>)

----------------------------------------------------------------------------
(* Values exchanged with the remote service *)

\* Python's None as the value of a field of a remote object
PyNone == "None"

JNone == [kind |-> "none"]
JText(t) == [kind |-> "text", text |-> t]
JObject(o) == [kind |-> "object", obj |-> o]
JList(items) == [kind |-> "list", items |-> items]

\* dict.get(key) on a remote object
ObjectGet(o, key) == IF key \in DOMAIN o THEN o[key] ELSE PyNone

----------------------------------------------------------------------------
(* client.py: QarnotClient *)

\* self._client is None
NoTransport == [established |-> FALSE]

\* QarnotClient.__init__
QarnotClient(api_key) == [api_key |-> api_key, _client |-> NoTransport]

\* the httpx.AsyncClient built by _get_client
AsyncClient(api_key) ==
    [established |-> TRUE,
     headers |-> [ContentType |-> "application/json", Authorization |-> api_key],
     timeout |-> 30]

\* QarnotClient._get_client: the instance after the call
_get_client(self) ==
    IF ~self._client.established
    THEN [self EXCEPT !._client = AsyncClient(self.api_key)]
    ELSE self

\* variant: close releases the transport and keeps the reference to it
close_keeps_reference(self) == self

\* QarnotClient.close: the instance after the call
close(self) ==
    IF self._client.established
    THEN [self EXCEPT !._client = NoTransport]
    ELSE self

\* the latest transport the instance `ref` created, 0 when it created none
CurrentTransport(ts, ref) ==
    IF \E k \in DOMAIN ts : ts[k].owner = ref
    THEN CHOOSE k \in DOMAIN ts :
            /\ ts[k].owner = ref
            /\ \A j \in DOMAIN ts : ts[j].owner = ref => j <= k
    ELSE 0

\* the transports after _get_client: a new one when self._client is None
Connect(ts, ref, self) ==
    IF ~self._client.established
    THEN Append(ts, [owner |-> ref, open |-> TRUE, requests |-> 0,
                     headers |-> AsyncClient(self.api_key).headers])
    ELSE ts

\* the transports after client.request on the instance's transport
Carry(ts, ref) == [ts EXCEPT ![CurrentTransport(ts, ref)].requests = @ + 1]

\* the transports after close: self._client.aclose() when there is one
aclose(ts, ref, self) ==
    IF self._client.established
    THEN [ts EXCEPT ![CurrentTransport(ts, ref)].open = FALSE]
    ELSE ts

\* the request _request hands to the transport; `via` is the instance sending it
HttpRequest(self, via, method, path, params, json) ==
    [method |-> method, path |-> path, params |-> params, json |-> json,
     headers |-> _get_client(self)._client.headers, via |-> via]

\* what awaiting _request gives
ApiError(status_code, message) ==
    [kind |-> "QarnotAPIError", status_code |-> status_code, message |-> message]
Value(v) == [kind |-> "value", value |-> v]
Exception(name) == [kind |-> "exception", exc |-> name]

\* content types the remote service declares
JsonContentTypes == {"application/json", "application/json; charset=utf-8"}

\* "application/json" in content_type
DeclaresJson(content_type) == content_type \in JsonContentTypes

\* variant: the content type is looked at before the 204 status
_request_decodes_no_content(response) ==
    IF response.failed
    THEN Exception("ConnectError")
    ELSE IF response.status_code >= 400
    THEN ApiError(response.status_code,
                  IF response.json.kind = "object" /\ "message" \in DOMAIN response.json.obj
                  THEN response.json.obj["message"]
                  ELSE response.text)
    ELSE IF DeclaresJson(response.content_type)
    THEN IF response.json.kind = "invalid"
         THEN Exception("JSONDecodeError")
         ELSE Value(response.json)
    ELSE IF response.status_code = 204
    THEN Value(JNone)
    ELSE Value(JText(response.text))

\* the tail of QarnotClient._request, from the response on; a response is
\* [failed, status_code, content_type, text, json], json the parsed body or
\* [kind |-> "invalid"] when response.json() raises
_request(response) ==
    IF response.failed
    THEN Exception("ConnectError")
    ELSE IF response.status_code >= 400
    THEN ApiError(response.status_code,
                  IF response.json.kind = "object" /\ "message" \in DOMAIN response.json.obj
                  THEN response.json.obj["message"]
                  ELSE response.text)
    ELSE IF response.status_code = 204
    THEN Value(JNone)
    ELSE IF DeclaresJson(response.content_type)
    THEN IF response.json.kind = "invalid"
         THEN Exception("JSONDecodeError")
         ELSE Value(response.json)
    ELSE Value(JText(response.text))

----------------------------------------------------------------------------
(* tools.py: get_client *)

\* variant: one process-wide client instance, reused once constructed
get_client_shared(h, ctx) ==
    LET key == get_api_key_from_context(ctx)
    IN  IF key.raised
        THEN [raised |-> TRUE, message |-> key.message, logs |-> key.logs, heap |-> h, ref |-> 0]
        ELSE IF h # <<>>
        THEN [raised |-> FALSE, message |-> "", logs |-> key.logs, heap |-> h, ref |-> 1]
        ELSE [raised |-> FALSE, message |-> "", logs |-> key.logs,
              heap |-> Append(h, QarnotClient(key.value)), ref |-> Len(h) + 1]

\* the outcome of get_client: the heap with the new instance, a reference to it
get_client(h, ctx) ==
    LET key == get_api_key_from_context(ctx)
    IN  IF key.raised
        THEN [raised |-> TRUE, message |-> key.message, logs |-> key.logs, heap |-> h, ref |-> 0]
        ELSE [raised |-> FALSE, message |-> "", logs |-> key.logs,
              heap |-> Append(h, QarnotClient(key.value)), ref |-> Len(h) + 1]

----------------------------------------------------------------------------
(* tools.py: what the handlers share *)

\* how an invocation ends
Running == [kind |-> "running"]
Return(v) == [kind |-> "return", value |-> v]
ToolError(message) == [kind |-> "ToolError", message |-> message]
Propagated(name) == [kind |-> "exception", exc |-> name]
\* the protocol server refused the arguments: the handler never ran
Rejected == [kind |-> "rejected"]

NoParams == [kind |-> "none"]
TagParams(tags) == [kind |-> "params", tag |-> tags]
NoJson == [kind |-> "none"]
JsonBody(body) == [kind |-> "json", body |-> body]

ClientCall(method, path, params, json) ==
    [method |-> method, path |-> path, params |-> params, json |-> json]

Info(msg, fields) == LogRecord("INFO", msg, <<>>, fields)

\* whether the caller supplied the parameter
Supplied(args, name) == name \in DOMAIN args

\* variant: instance_count declared without ge=1
SchemaAccepts_unconstrained(c) == TRUE

\* the constraints the parameter annotations declare, applied by the protocol
\* server before it calls the handler: instance_count has ge=1
SchemaAccepts(c) ==
    (c.tool = "submit_task" /\ Supplied(c.args, "instance_count"))
        => c.args["instance_count"] >= 1

\* the invocation ends here
Finish(i, records, outcome) ==
    /\ pc' = [pc EXCEPT ![i] = "returned"]
    /\ log' = [log EXCEPT ![i] = @ \o records]
    /\ result' = [result EXCEPT ![i] = outcome]

\* the handler from its first line to the await of the transport: the entry
\* log record, get_client, the client method down to client.request
Begin(i, entry, cc) ==
    IF ~SchemaAccepts(call[i])
    THEN /\ Finish(i, <<>>, Rejected)
         /\ UNCHANGED <<heap, client, sent, received, transports>>
    ELSE
    LET got == get_client(heap, call[i].ctx)
    IN  IF got.raised
        THEN /\ Finish(i, entry \o got.logs, ToolError(<<got.message>>))
             /\ UNCHANGED <<heap, client, sent, received, transports>>
        ELSE /\ heap' = [got.heap EXCEPT ![got.ref] = _get_client(@)]
             /\ client' = [client EXCEPT ![i] = got.ref]
             /\ sent' = [sent EXCEPT ![i] =
                    Append(@, HttpRequest(got.heap[got.ref], got.ref,
                                          cc.method, cc.path, cc.params, cc.json))]
             /\ log' = [log EXCEPT ![i] = @ \o entry \o got.logs \o
                    <<LogRecord("DEBUG", "Qarnot API request: ", <<>>, <<cc.method, cc.path>>)>>]
             /\ transports' = Carry(Connect(transports, got.ref, got.heap[got.ref]), got.ref)
             /\ pc' = [pc EXCEPT ![i] = "awaiting"]
             /\ UNCHANGED <<result, received>>

\* variant: a call that failed is sent once more
Resume_retries(i, response, records, outcome) ==
    IF outcome.kind = "ToolError" /\ Len(sent[i]) < 2
    THEN /\ sent' = [sent EXCEPT ![i] = Append(@, @[1])]
         /\ received' = [received EXCEPT ![i] = Append(@, response)]
         /\ transports' = Carry(transports, client[i])
         /\ UNCHANGED <<pc, log, result, heap, client>>
    ELSE /\ Finish(i, records, outcome)
         /\ received' = [received EXCEPT ![i] = Append(@, response)]
         /\ UNCHANGED <<heap, client, sent, transports>>

\* the handler from the response on: `shape` gives the records it logs and how
\* it ends for each result of _request
Resume(i, response, records, outcome) ==
    /\ Finish(i, records, outcome)
    /\ received' = [received EXCEPT ![i] = Append(@, response)]
    /\ UNCHANGED <<heap, client, sent, transports>>

Shaped(records, outcome) == [records |-> records, outcome |-> outcome]

----------------------------------------------------------------------------
(* tools.py: list_tasks_impl *)

\* the fields of an entry of list_tasks and the remote fields they come from
ProjectedFields ==
    [uuid |-> "uuid", name |-> "name", shortname |-> "shortname", state |-> "state",
     progress |-> "progress", profile |-> "profile", instance_count |-> "instanceCount",
     running_instance_count |-> "runningInstanceCount", creation_date |-> "creationDate",
     end_date |-> "endDate", tags |-> "tags"]

FormatTask(task) == [f \in DOMAIN ProjectedFields |-> ObjectGet(task, ProjectedFields[f])]

\* variant: the entries in the reverse of the remote order
list_tasks_shape_reversed(args, r) ==
    IF r.kind = "QarnotAPIError"
    THEN Shaped(<<>>, ToolError(<<"Failed to list tasks: ", r.message>>))
    ELSE IF r.kind = "exception"
    THEN Shaped(<<>>, Propagated(r.exc))
    ELSE IF r.value.kind = "list"
    THEN LET n == Len(r.value.items)
             formatted_tasks == [k \in 1..n |-> FormatTask(r.value.items[n + 1 - k])]
         IN  Shaped(<<Info("list_tasks: Found tasks", <<Len(formatted_tasks)>>)>>,
                    Return(JList(formatted_tasks)))
    ELSE IF r.value.kind = "text" /\ r.value.text = ""
    THEN Shaped(<<Info("list_tasks: Found tasks", <<0>>)>>, Return(JList(<<>>)))
    ELSE IF r.value.kind = "none"
    THEN Shaped(<<>>, Propagated("TypeError"))
    ELSE Shaped(<<>>, Propagated("AttributeError"))

list_tasks_shape(args, r) ==
    IF r.kind = "QarnotAPIError"
    THEN Shaped(<<>>, ToolError(<<"Failed to list tasks: ", r.message>>))
    ELSE IF r.kind = "exception"
    THEN Shaped(<<>>, Propagated(r.exc))
    ELSE IF r.value.kind = "list"
    THEN LET formatted_tasks == [k \in 1..Len(r.value.items) |-> FormatTask(r.value.items[k])]
         IN  Shaped(<<Info("list_tasks: Found tasks", <<Len(formatted_tasks)>>)>>,
                    Return(JList(formatted_tasks)))
    ELSE IF r.value.kind = "text" /\ r.value.text = ""
    THEN Shaped(<<Info("list_tasks: Found tasks", <<0>>)>>, Return(JList(<<>>)))
    ELSE IF r.value.kind = "none"
    THEN Shaped(<<>>, Propagated("TypeError"))
    ELSE Shaped(<<>>, Propagated("AttributeError"))

list_tasks_impl(i) ==
    /\ pc[i] = "pending"
    /\ call[i].tool = "list_tasks"
    /\ LET args == call[i].args
           tags == IF Supplied(args, "tags") THEN args["tags"] ELSE <<>>
       IN  Begin(i, <<Info("Action: list_tasks | Tags: ",
                           <<IF Supplied(args, "tags") THEN tags ELSE PyNone>>)>>,
                 ClientCall("GET", <<"/tasks">>,
                            IF tags # <<>> THEN TagParams(tags) ELSE NoParams, NoJson))
    /\ UNCHANGED <<call, remote, arg, ret>>

list_tasks_impl_resume(i) ==
    /\ pc[i] = "awaiting"
    /\ call[i].tool = "list_tasks"
    /\ \E response \in remote :
        LET s == list_tasks_shape(call[i].args, _request(response))
        IN  Resume(i, response, s.records, s.outcome)
    /\ UNCHANGED <<call, remote, arg, ret>>

----------------------------------------------------------------------------
(* tools.py: get_task_impl *)

get_task_shape(args, r) ==
    IF r.kind = "QarnotAPIError"
    THEN IF r.status_code = 404
         THEN Shaped(<<>>, ToolError(<<"Task not found: ", args["task_uuid"]>>))
         ELSE Shaped(<<>>, ToolError(<<"Failed to get task: ", r.message>>))
    ELSE IF r.kind = "exception"
    THEN Shaped(<<>>, Propagated(r.exc))
    ELSE IF r.value.kind = "object"
    THEN Shaped(<<Info("get_task: Retrieved task",
                       <<ObjectGet(r.value.obj, "name"), ObjectGet(r.value.obj, "state")>>)>>,
                Return(r.value))
    ELSE Shaped(<<>>, Propagated("AttributeError"))

get_task_impl(i) ==
    /\ pc[i] = "pending"
    /\ call[i].tool = "get_task"
    /\ LET task_uuid == call[i].args["task_uuid"]
       IN  Begin(i, <<Info("Action: get_task | Task UUID: ", <<task_uuid>>)>>,
                 ClientCall("GET", <<"/tasks/", task_uuid>>, NoParams, NoJson))
    /\ UNCHANGED <<call, remote, arg, ret>>

get_task_impl_resume(i) ==
    /\ pc[i] = "awaiting"
    /\ call[i].tool = "get_task"
    /\ \E response \in remote :
        LET s == get_task_shape(call[i].args, _request(response))
        IN  Resume(i, response, s.records, s.outcome)
    /\ UNCHANGED <<call, remote, arg, ret>>

----------------------------------------------------------------------------
(* tools.py: submit_task_impl *)

\* the optional parameters of submit_task and the remote keys they are sent as
RemoteKeys ==
    [shortname |-> "shortname", profile |-> "profile", instance_count |-> "instanceCount",
     resource_buckets |-> "resourceBuckets", result_bucket |-> "resultBucket",
     constants |-> "constants", tags |-> "tags"]

OptionalParams == DOMAIN RemoteKeys

StringParams == {"shortname", "profile", "result_bucket"}
ListParams == {"resource_buckets", "constants", "tags"}

\* `if value:` for a supplied parameter
TruthyParam(param, value) ==
    IF param \in StringParams THEN value # ""
    ELSE IF param \in ListParams THEN value # <<>>
    ELSE value # 0

\* the parameters that pass the handler's `if <param>:` tests
Included(args) ==
    {p \in OptionalParams : Supplied(args, p) /\ TruthyParam(p, args[p])}

ParamOf(key) == IF key = "name" THEN "name" ELSE CHOOSE p \in OptionalParams : RemoteKeys[p] = key

\* variant: every remote key always present, null when the parameter is left out
task_config_with_nulls(args) ==
    [key \in {"name"} \cup {RemoteKeys[p] : p \in OptionalParams} |->
        IF ParamOf(key) \in {"name"} \cup Included(args) THEN args[ParamOf(key)] ELSE PyNone]

\* the payload submit_task_impl builds
task_config(args) ==
    [key \in {"name"} \cup {RemoteKeys[p] : p \in Included(args)} |-> args[ParamOf(key)]]

submit_task_shape(args, r) ==
    IF r.kind = "QarnotAPIError"
    THEN Shaped(<<>>, ToolError(<<"Failed to submit task: ", r.message>>))
    ELSE IF r.kind = "exception"
    THEN Shaped(<<>>, Propagated(r.exc))
    ELSE IF r.value.kind = "object"
    THEN Shaped(<<Info("submit_task: Created task with UUID", <<ObjectGet(r.value.obj, "uuid")>>)>>,
                Return(r.value))
    ELSE Shaped(<<>>, Propagated("AttributeError"))

submit_task_impl(i) ==
    /\ pc[i] = "pending"
    /\ call[i].tool = "submit_task"
    /\ LET args == call[i].args
       IN  Begin(i, <<Info("Action: submit_task | Name: | Profile: ",
                           <<args["name"],
                             IF Supplied(args, "profile") THEN args["profile"] ELSE PyNone>>)>>,
                 ClientCall("POST", <<"/tasks">>, NoParams, JsonBody(task_config(args))))
    /\ UNCHANGED <<call, remote, arg, ret>>

submit_task_impl_resume(i) ==
    /\ pc[i] = "awaiting"
    /\ call[i].tool = "submit_task"
    /\ \E response \in remote :
        LET s == submit_task_shape(call[i].args, _request(response))
        IN  Resume(i, response, s.records, s.outcome)
    /\ UNCHANGED <<call, remote, arg, ret>>

----------------------------------------------------------------------------
(* tools.py: get_task_logs_impl *)

\* log_type, "stdout" when the caller leaves it out
LogType(args) == IF Supplied(args, "log_type") THEN args["log_type"] ELSE "stdout"

\* variant: one placeholder for both log types
NoOutput_stdout_only(log_type) == "No stdout output available"

\* f"No {log_type} output available"
NoOutput(log_type) ==
    IF log_type = "stdout" THEN "No stdout output available" ELSE "No stderr output available"

\* `if logs` for what the client returned
TruthyValue(v) ==
    IF v.kind = "none" THEN FALSE
    ELSE IF v.kind = "text" THEN v.text # ""
    ELSE IF v.kind = "list" THEN v.items # <<>>
    ELSE DOMAIN v.obj # {}

get_task_logs_shape(args, r) ==
    IF r.kind = "QarnotAPIError"
    THEN IF r.status_code = 404
         THEN Shaped(<<>>, ToolError(<<"Task or instance not found: ", args["task_uuid"]>>))
         ELSE Shaped(<<>>, ToolError(<<"Failed to get logs: ", r.message>>))
    ELSE IF r.kind = "exception"
    THEN Shaped(<<>>, Propagated(r.exc))
    ELSE IF TruthyValue(r.value)
    THEN Shaped(<<Info("get_task_logs: Retrieved chars of", <<"len(logs)", LogType(args)>>)>>,
                Return(r.value))
    ELSE Shaped(<<Info("get_task_logs: Retrieved chars of", <<"0", LogType(args)>>)>>,
                Return(JText(NoOutput(LogType(args)))))

\* variant: log_type validated after get_client
get_task_logs_impl_validates_late(i) ==
    /\ pc[i] = "pending"
    /\ call[i].tool = "get_task_logs"
    /\ LET args == call[i].args
           task_uuid == args["task_uuid"]
           log_type == LogType(args)
           entry == <<Info("Action: get_task_logs | Task: | Type: | Instance: ",
                           <<task_uuid, log_type,
                             IF Supplied(args, "instance_id")
                             THEN ToString(args["instance_id"]) ELSE PyNone>>)>>
           got == get_client(heap, call[i].ctx)
       IN  IF log_type \notin {"stdout", "stderr"}
           THEN IF got.raised
                THEN /\ Finish(i, entry \o got.logs, ToolError(<<got.message>>))
                     /\ UNCHANGED <<heap, client, sent, received, transports>>
                ELSE /\ Finish(i, entry \o got.logs,
                               ToolError(<<"log_type must be 'stdout' or 'stderr'">>))
                     /\ heap' = got.heap
                     /\ client' = [client EXCEPT ![i] = got.ref]
                     /\ UNCHANGED <<sent, received, transports>>
           ELSE Begin(i, entry,
                      ClientCall("GET",
                                 IF Supplied(args, "instance_id")
                                 THEN <<"/tasks/", task_uuid, "/", log_type, "/",
                                        ToString(args["instance_id"])>>
                                 ELSE <<"/tasks/", task_uuid, "/", log_type>>,
                                 NoParams, NoJson))
    /\ UNCHANGED <<call, remote, arg, ret>>

get_task_logs_impl(i) ==
    /\ pc[i] = "pending"
    /\ call[i].tool = "get_task_logs"
    /\ LET args == call[i].args
           task_uuid == args["task_uuid"]
           log_type == LogType(args)
           entry == <<Info("Action: get_task_logs | Task: | Type: | Instance: ",
                           <<task_uuid, log_type,
                             IF Supplied(args, "instance_id")
                             THEN ToString(args["instance_id"]) ELSE PyNone>>)>>
       IN  IF log_type \notin {"stdout", "stderr"}
           THEN /\ Finish(i, entry, ToolError(<<"log_type must be 'stdout' or 'stderr'">>))
                /\ UNCHANGED <<heap, client, sent, received, transports>>
           ELSE Begin(i, entry,
                      ClientCall("GET",
                                 IF Supplied(args, "instance_id")
                                 THEN <<"/tasks/", task_uuid, "/", log_type, "/",
                                        ToString(args["instance_id"])>>
                                 ELSE <<"/tasks/", task_uuid, "/", log_type>>,
                                 NoParams, NoJson))
    /\ UNCHANGED <<call, remote, arg, ret>>

get_task_logs_impl_resume(i) ==
    /\ pc[i] = "awaiting"
    /\ call[i].tool = "get_task_logs"
    /\ \E response \in remote :
        LET s == get_task_logs_shape(call[i].args, _request(response))
        IN  Resume(i, response, s.records, s.outcome)
    /\ UNCHANGED <<call, remote, arg, ret>>

----------------------------------------------------------------------------
(* tools.py: abort_task_impl *)

Acknowledgment(message) == JObject([status |-> "success", message |-> message])

\* variant: 403 has no message of its own
abort_task_shape_no_forbidden(args, r) ==
    IF r.kind = "QarnotAPIError"
    THEN IF r.status_code = 404
         THEN Shaped(<<>>, ToolError(<<"Task not found: ", args["task_uuid"]>>))
         ELSE Shaped(<<>>, ToolError(<<"Failed to abort task: ", r.message>>))
    ELSE IF r.kind = "exception"
    THEN Shaped(<<>>, Propagated(r.exc))
    ELSE Shaped(<<Info("abort_task: Successfully aborted task", <<args["task_uuid"]>>)>>,
                Return(Acknowledgment(<<"Task ", args["task_uuid"], " has been aborted">>)))

abort_task_shape(args, r) ==
    IF r.kind = "QarnotAPIError"
    THEN IF r.status_code = 404
         THEN Shaped(<<>>, ToolError(<<"Task not found: ", args["task_uuid"]>>))
         ELSE IF r.status_code = 403
         THEN Shaped(<<>>, ToolError(<<"Cannot abort task (may already be completed): ",
                                       args["task_uuid"]>>))
         ELSE Shaped(<<>>, ToolError(<<"Failed to abort task: ", r.message>>))
    ELSE IF r.kind = "exception"
    THEN Shaped(<<>>, Propagated(r.exc))
    ELSE Shaped(<<Info("abort_task: Successfully aborted task", <<args["task_uuid"]>>)>>,
                Return(Acknowledgment(<<"Task ", args["task_uuid"], " has been aborted">>)))

abort_task_impl(i) ==
    /\ pc[i] = "pending"
    /\ call[i].tool = "abort_task"
    /\ LET task_uuid == call[i].args["task_uuid"]
       IN  Begin(i, <<Info("Action: abort_task | Task UUID: ", <<task_uuid>>)>>,
                 ClientCall("POST", <<"/tasks/", task_uuid, "/abort">>, NoParams, NoJson))
    /\ UNCHANGED <<call, remote, arg, ret>>

abort_task_impl_resume(i) ==
    /\ pc[i] = "awaiting"
    /\ call[i].tool = "abort_task"
    /\ \E response \in remote :
        LET s == abort_task_shape(call[i].args, _request(response))
        IN  Resume(i, response, s.records, s.outcome)
    /\ UNCHANGED <<call, remote, arg, ret>>

----------------------------------------------------------------------------
(* tools.py: delete_task_impl *)

delete_task_shape(args, r) ==
    IF r.kind = "QarnotAPIError"
    THEN IF r.status_code = 404
         THEN Shaped(<<>>, ToolError(<<"Task not found: ", args["task_uuid"]>>))
         ELSE Shaped(<<>>, ToolError(<<"Failed to delete task: ", r.message>>))
    ELSE IF r.kind = "exception"
    THEN Shaped(<<>>, Propagated(r.exc))
    ELSE Shaped(<<Info("delete_task: Successfully deleted task", <<args["task_uuid"]>>)>>,
                Return(Acknowledgment(<<"Task ", args["task_uuid"], " has been deleted">>)))

delete_task_impl(i) ==
    /\ pc[i] = "pending"
    /\ call[i].tool = "delete_task"
    /\ LET task_uuid == call[i].args["task_uuid"]
       IN  Begin(i, <<Info("Action: delete_task | Task UUID: ", <<task_uuid>>)>>,
                 ClientCall("DELETE", <<"/tasks/", task_uuid>>, NoParams, NoJson))
    /\ UNCHANGED <<call, remote, arg, ret>>

delete_task_impl_resume(i) ==
    /\ pc[i] = "awaiting"
    /\ call[i].tool = "delete_task"
    /\ \E response \in remote :
        LET s == delete_task_shape(call[i].args, _request(response))
        IN  Resume(i, response, s.records, s.outcome)
    /\ UNCHANGED <<call, remote, arg, ret>>

----------------------------------------------------------------------------
(* tools.py: list_profiles_impl *)

list_profiles_shape(args, r) ==
    IF r.kind = "QarnotAPIError"
    THEN Shaped(<<>>, ToolError(<<"Failed to list profiles: ", r.message>>))
    ELSE IF r.kind = "exception"
    THEN Shaped(<<>>, Propagated(r.exc))
    ELSE IF r.value.kind = "none"
    THEN Shaped(<<>>, Propagated("TypeError"))
    ELSE Shaped(<<Info("list_profiles: Found profiles", <<"len(profiles)">>)>>, Return(r.value))

list_profiles_impl(i) ==
    /\ pc[i] = "pending"
    /\ call[i].tool = "list_profiles"
    /\ Begin(i, <<Info("Action: list_profiles", <<>>)>>,
             ClientCall("GET", <<"/profiles">>, NoParams, NoJson))
    /\ UNCHANGED <<call, remote, arg, ret>>

list_profiles_impl_resume(i) ==
    /\ pc[i] = "awaiting"
    /\ call[i].tool = "list_profiles"
    /\ \E response \in remote :
        LET s == list_profiles_shape(call[i].args, _request(response))
        IN  Resume(i, response, s.records, s.outcome)
    /\ UNCHANGED <<call, remote, arg, ret>>

----------------------------------------------------------------------------
(* tools.py: get_profile_impl *)

get_profile_shape(args, r) ==
    IF r.kind = "QarnotAPIError"
    THEN IF r.status_code = 404
         THEN Shaped(<<>>, ToolError(<<"Profile not found: ", args["profile_name"]>>))
         ELSE Shaped(<<>>, ToolError(<<"Failed to get profile: ", r.message>>))
    ELSE IF r.kind = "exception"
    THEN Shaped(<<>>, Propagated(r.exc))
    ELSE Shaped(<<Info("get_profile: Retrieved profile", <<args["profile_name"]>>)>>,
                Return(r.value))

get_profile_impl(i) ==
    /\ pc[i] = "pending"
    /\ call[i].tool = "get_profile"
    /\ LET profile_name == call[i].args["profile_name"]
       IN  Begin(i, <<Info("Action: get_profile | Profile: ", <<profile_name>>)>>,
                 ClientCall("GET", <<"/profiles/", profile_name>>, NoParams, NoJson))
    /\ UNCHANGED <<call, remote, arg, ret>>

get_profile_impl_resume(i) ==
    /\ pc[i] = "awaiting"
    /\ call[i].tool = "get_profile"
    /\ \E response \in remote :
        LET s == get_profile_shape(call[i].args, _request(response))
        IN  Resume(i, response, s.records, s.outcome)
    /\ UNCHANGED <<call, remote, arg, ret>>

----------------------------------------------------------------------------
(* Pure-function harness: nothing applied yet *)

NotApplied == [done |-> FALSE]

NoSlots == <<>>

IdleHandlers ==
    /\ call = NoSlots
    /\ pc = NoSlots
    /\ heap = <<>>
    /\ client = NoSlots
    /\ sent = NoSlots
    /\ log = NoSlots
    /\ result = NoSlots
    /\ received = NoSlots
    /\ transports = <<>>
    /\ remote = {}

----------------------------------------------------------------------------
(* Specification of _mask_token over bounded tokens *)

MaskAlphabet == {"k", "*"}

InitMask ==
    /\ IdleHandlers
    /\ arg \in Strings(MaskAlphabet, MaxTokenLen)
    /\ ret = NotApplied

MaskToken ==
    /\ ~ret.done
    /\ ret' = [done |-> TRUE, out |-> _mask_token(arg)]
    /\ UNCHANGED <<arg, handlerVars>>

NextMask == MaskToken

SpecMask == InitMask /\ [][NextMask]_vars

----------------------------------------------------------------------------
(* Specification of get_api_key_from_context over bounded request contexts *)

AuthorizationKeys == {"authorization", "Authorization", "AUTHORIZATION"}
ApiKeyKeys == {"x-api-key", "X-Api-Key", "X-API-KEY"}

Schemes ==
    { <<>>,
      <<"B", "e", "a", "r", "e", "r", " ">>,
      <<"b", "e", "a", "r", "e", "r", " ">>,
      <<"B", "E", "A", "R", "E", "R", " ">>,
      <<"b", "E", "a", "R", "e", "R", " ">>,
      <<"B", "e", "a", "r", "e", "r">>,
      <<"B", "a", "s", "i", "c", " ">> }

BodyAlphabet == {"k", " "}

HeaderBodies == Strings(BodyAlphabet, MaxBodyLen)

AuthorizationValues == {s \o b : s \in Schemes, b \in HeaderBodies}

\* one header: no entry, or one spelling of its name with a value
OneHeader(keys, values) ==
    {<<>>} \cup {[k \in {key} |-> v] : key \in keys, v \in values}

\* the union of two mappings with disjoint keys
Merge(f, g) ==
    [k \in DOMAIN f \cup DOMAIN g |-> IF k \in DOMAIN f THEN f[k] ELSE g[k]]

\* header mappings: at most one entry per header name
HeaderMappings ==
    {Merge(a, x) : a \in OneHeader(AuthorizationKeys, AuthorizationValues),
                   x \in OneHeader(ApiKeyKeys, HeaderBodies)}

Context(headers) ==
    [has_request_context |-> TRUE, has_headers |-> TRUE, headers |-> headers]

\* ctx.request_context is None
NoRequestContext ==
    [has_request_context |-> FALSE, has_headers |-> FALSE, headers |-> <<>>]

\* request_context.headers is None or missing
NoHeaders ==
    [has_request_context |-> TRUE, has_headers |-> FALSE, headers |-> <<>>]

InitAuth ==
    /\ IdleHandlers
    /\ arg \in {NoRequestContext, NoHeaders} \cup {Context(h) : h \in HeaderMappings}
    /\ ret = NotApplied

ResolveCredential ==
    /\ ~ret.done
    /\ ret' = [done |-> TRUE, out |-> get_api_key_from_context(arg)]
    /\ UNCHANGED <<arg, handlerVars>>

NextAuth == ResolveCredential

SpecAuth == InitAuth /\ [][NextAuth]_vars

----------------------------------------------------------------------------
(* The inbound tool calls and the remote service's responses *)

Uuids == {"uuid-1", "uuid-2"}
ProfileNames == {"docker-batch", "blender"}

\* a function as the keyword arguments of a call: the supplied parameters only
NoArgs == <<>>
OneArg(name, value) == [k \in {name} |-> value]

\* from a choice per parameter, [supplied, value], the keyword arguments
Kwargs(choice) == [k \in {p \in DOMAIN choice : choice[p].supplied} |-> choice[k].value]

Omitted == [supplied |-> FALSE]
Given(values) == {[supplied |-> TRUE, value |-> v] : v \in values}

ToolCall(tool, args, ctx) == [tool |-> tool, args |-> args, ctx |-> ctx]

LongToken == <<"k", "e", "y", "-", "0", "1", "2", "3", "4", "5", "6", "7", "8">>

\* request contexts of the calls: each rule of the resolver, and none
CallContexts ==
    { NoRequestContext,
      Context(<<>>),
      Context(OneArg("authorization", <<"B", "e", "a", "r", "e", "r", " ">> \o LongToken)),
      Context(OneArg("Authorization", <<"b", "e", "a", "r", "e", "r", " ", " ", "k", " ">>)),
      Context(OneArg("authorization", <<"B", "a", "s", "i", "c", " ", "k">>)),
      Context(OneArg("authorization", <<"B", "e", "a", "r", "e", "r", " ", " ">>)),
      Context(OneArg("x-api-key", <<"k", "k">>)),
      Context(OneArg("X-Api-Key", LongToken)),
      Context(OneArg("AUTHORIZATION", <<"B", "e", "a", "r", "e", "r", " ", "k">>)),
      Context(Merge(OneArg("authorization", <<>>), OneArg("x-api-key", <<"k", "*">>))) }

ListTasksArgs == {NoArgs} \cup {OneArg("tags", t) : t \in {<<>>, <<"t1">>}}

TaskArgs == {OneArg("task_uuid", u) : u \in Uuids}

LogTypes == {"stdout", "stderr", "invalid"}

GetTaskLogsArgs ==
    {Kwargs(c) : c \in [task_uuid : Given({"uuid-1"}),
                        log_type : {Omitted} \cup Given(LogTypes),
                        instance_id : {Omitted} \cup Given({0, 1})]}

InstanceCounts == (-1)..MaxInstanceCount

SomeConstants == <<[key |-> "CMD", value |-> "echo hello"]>>

\* every combination of omitted, empty and non-empty optional parameters
SubmitTaskArgs ==
    {Kwargs(c) : c \in [name : Given({"Test Task"}),
                        shortname : {Omitted} \cup Given({"", "test"}),
                        profile : {Omitted} \cup Given({"", "docker-batch"}),
                        instance_count : {Omitted} \cup Given(InstanceCounts),
                        resource_buckets : {Omitted} \cup Given({<<>>, <<"input">>}),
                        result_bucket : {Omitted} \cup Given({"", "output"}),
                        constants : {Omitted} \cup Given({<<>>, SomeConstants}),
                        tags : {Omitted} \cup Given({<<>>, <<"t1">>})]}

\* name only; everything supplied; everything supplied empty; a count below 1
FewSubmitTaskArgs ==
    {a \in SubmitTaskArgs :
        \/ DOMAIN a = {"name"}
        \/ /\ DOMAIN a = {"name"} \cup OptionalParams
           /\ a["instance_count"] \in {0, 1}
           /\ (a["instance_count"] = 1) = (a["shortname"] # "")
           /\ \A p \in StringParams : (a[p] = "") = (a["shortname"] = "")
           /\ \A p \in ListParams : (a[p] = <<>>) = (a["shortname"] = "")}

ProfileArgs == {OneArg("profile_name", n) : n \in ProfileNames}

ToolArgs ==
    [list_tasks |-> ListTasksArgs, get_task |-> TaskArgs, submit_task |-> FewSubmitTaskArgs,
     get_task_logs |-> GetTaskLogsArgs, abort_task |-> TaskArgs, delete_task |-> TaskArgs,
     list_profiles |-> {NoArgs}, get_profile |-> ProfileArgs]

Tools == DOMAIN ToolArgs

ToolCalls == UNION {{ToolCall(t, a, c) : a \in ToolArgs[t], c \in CallContexts} : t \in Tools}

\* remote objects
TaskA ==
    [uuid |-> "uuid-1", name |-> "Test Task", shortname |-> "test-task", state |-> "Running",
     progress |-> "50.0", profile |-> "docker-batch", instanceCount |-> "4",
     runningInstanceCount |-> "2", creationDate |-> "2025-01-01T00:00:00Z",
     endDate |-> PyNone, tags |-> "test,example", resourceBuckets |-> "input-bucket",
     resultBucket |-> "output-bucket"]

TaskB == [uuid |-> "uuid-2", name |-> "Another Task", state |-> "Completed"]

Invalid == [kind |-> "invalid"]

\* response bodies: the text and what response.json() makes of it
Bodies ==
    { [text |-> "", json |-> Invalid],
      [text |-> "line 1", json |-> Invalid],
      [text |-> "{\"message\": \"boom\"}", json |-> JObject([message |-> "boom"])],
      [text |-> "{task A}", json |-> JObject(TaskA)],
      [text |-> "[task A, task B]", json |-> JList(<<TaskA, TaskB>>)],
      [text |-> "[task B, task A]", json |-> JList(<<TaskB, TaskA>>)],
      [text |-> "[]", json |-> JList(<<>>)] }

StatusCodes == {200, 204, 400, 403, 404, 500}

ContentTypes == JsonContentTypes \cup {"text/plain"}

Response(status_code, content_type, body) ==
    [failed |-> FALSE, status_code |-> status_code, content_type |-> content_type,
     text |-> body.text, json |-> body.json]

\* client.request raised: no response
TransportFailure ==
    [failed |-> TRUE, status_code |-> 0, content_type |-> "", text |-> "", json |-> Invalid]

Responses ==
    {Response(s, c, b) : s \in StatusCodes, c \in ContentTypes, b \in Bodies}
        \cup {TransportFailure}

FewResponses ==
    { Response(200, "application/json", [text |-> "{task A}", json |-> JObject(TaskA)]),
      Response(404, "application/json",
               [text |-> "{\"message\": \"boom\"}", json |-> JObject([message |-> "boom"])]),
      TransportFailure }

----------------------------------------------------------------------------
(* Specification of QarnotClient._request over the responses *)

InitRequest ==
    /\ IdleHandlers
    /\ arg \in Responses
    /\ ret = NotApplied

HandleResponse ==
    /\ ~ret.done
    /\ ret' = [done |-> TRUE, out |-> _request(arg)]
    /\ UNCHANGED <<arg, handlerVars>>

NextRequest == HandleResponse

SpecRequest == InitRequest /\ [][NextRequest]_vars

----------------------------------------------------------------------------
(* Specification of one QarnotClient under requests and close calls *)

ClientCredentials == {<<"k", "1">>, <<"k", "2">>, LongToken}

\* the requests the transports carried, in all
RECURSIVE Requests(_)
Requests(ts) == IF ts = <<>> THEN 0 ELSE ts[1].requests + Requests(Tail(ts))

InitClient ==
    /\ call = NoSlots
    /\ pc = NoSlots
    /\ heap \in {<<QarnotClient(k)>> : k \in ClientCredentials}
    /\ client = NoSlots
    /\ sent = NoSlots
    /\ log = NoSlots
    /\ result = NoSlots
    /\ received = NoSlots
    /\ transports = <<>>
    /\ remote = {}
    /\ arg = <<>>
    /\ ret = NotApplied

\* a request on the instance, up to the await of the transport
ClientRequest ==
    /\ Requests(transports) < MaxRequests
    /\ transports' = Carry(Connect(transports, 1, heap[1]), 1)
    /\ heap' = [heap EXCEPT ![1] = _get_client(@)]
    /\ UNCHANGED <<call, pc, client, sent, log, result, received, remote, arg, ret>>

ClientClose ==
    /\ transports' = aclose(transports, 1, heap[1])
    /\ heap' = [heap EXCEPT ![1] = close(@)]
    /\ UNCHANGED <<call, pc, client, sent, log, result, received, remote, arg, ret>>

NextClient ==
    \/ ClientRequest
    \/ ClientClose

SpecClient == InitClient /\ [][NextClient]_vars

----------------------------------------------------------------------------
(* Specifications of the tool handlers *)

InitCalls(slots, calls, responses) ==
    /\ call \in [slots -> calls]
    /\ pc = [i \in slots |-> "pending"]
    /\ heap = <<>>
    /\ client = [i \in slots |-> 0]
    /\ sent = [i \in slots |-> <<>>]
    /\ log = [i \in slots |-> <<>>]
    /\ result = [i \in slots |-> Running]
    /\ received = [i \in slots |-> <<>>]
    /\ transports = <<>>
    /\ remote = responses
    /\ arg = <<>>
    /\ ret = NotApplied

\* one invocation: every tool, every request context, every response
Init == InitCalls({1}, ToolCalls, Responses)

Next ==
    \/ \E i \in DOMAIN pc : list_tasks_impl(i)
    \/ \E i \in DOMAIN pc : list_tasks_impl_resume(i)
    \/ \E i \in DOMAIN pc : get_task_impl(i)
    \/ \E i \in DOMAIN pc : get_task_impl_resume(i)
    \/ \E i \in DOMAIN pc : submit_task_impl(i)
    \/ \E i \in DOMAIN pc : submit_task_impl_resume(i)
    \/ \E i \in DOMAIN pc : get_task_logs_impl(i)
    \/ \E i \in DOMAIN pc : get_task_logs_impl_resume(i)
    \/ \E i \in DOMAIN pc : abort_task_impl(i)
    \/ \E i \in DOMAIN pc : abort_task_impl_resume(i)
    \/ \E i \in DOMAIN pc : delete_task_impl(i)
    \/ \E i \in DOMAIN pc : delete_task_impl_resume(i)
    \/ \E i \in DOMAIN pc : list_profiles_impl(i)
    \/ \E i \in DOMAIN pc : list_profiles_impl_resume(i)
    \/ \E i \in DOMAIN pc : get_profile_impl(i)
    \/ \E i \in DOMAIN pc : get_profile_impl_resume(i)

Spec == Init /\ [][Next]_vars

\* concurrent invocations, on one task and one profile, under two credentials
ConcurrentContexts ==
    { Context(OneArg("authorization", <<"B", "e", "a", "r", "e", "r", " ", "k", "1">>)),
      Context(OneArg("x-api-key", <<"k", "2">>)) }

\* the tools that read, create and end tasks, all on one task
ConcurrentArgs ==
    [get_task |-> {OneArg("task_uuid", "uuid-1")},
     submit_task |-> {OneArg("name", "Test Task")},
     abort_task |-> {OneArg("task_uuid", "uuid-1")},
     delete_task |-> {OneArg("task_uuid", "uuid-1")}]

ConcurrentCalls ==
    UNION {{ToolCall(t, a, c) : a \in ConcurrentArgs[t], c \in ConcurrentContexts} :
                t \in DOMAIN ConcurrentArgs}

InitConcurrent == InitCalls(1..NumConcurrent, ConcurrentCalls, FewResponses)

NextConcurrent ==
    \/ \E i \in DOMAIN pc : get_task_impl(i)
    \/ \E i \in DOMAIN pc : get_task_impl_resume(i)
    \/ \E i \in DOMAIN pc : submit_task_impl(i)
    \/ \E i \in DOMAIN pc : submit_task_impl_resume(i)
    \/ \E i \in DOMAIN pc : abort_task_impl(i)
    \/ \E i \in DOMAIN pc : abort_task_impl_resume(i)
    \/ \E i \in DOMAIN pc : delete_task_impl(i)
    \/ \E i \in DOMAIN pc : delete_task_impl_resume(i)

SpecConcurrent == InitConcurrent /\ [][NextConcurrent]_vars

\* one invocation of submit_task, every combination of its parameters
SubmitContexts ==
    { Context(<<>>),
      Context(OneArg("authorization", <<"B", "e", "a", "r", "e", "r", " ", "k">>)) }

SubmitCalls == {ToolCall("submit_task", a, c) : a \in SubmitTaskArgs, c \in SubmitContexts}

InitSubmit == InitCalls({1}, SubmitCalls, FewResponses)

NextSubmit ==
    \/ \E i \in DOMAIN pc : submit_task_impl(i)
    \/ \E i \in DOMAIN pc : submit_task_impl_resume(i)

SpecSubmit == InitSubmit /\ [][NextSubmit]_vars

----------------------------------------------------------------------------
(* Claims about _mask_token *)

\* the credentials that are substrings of the fixed mask
InsideFixedMask == {<<>>, <<"*">>, <<"*", "*">>, <<"*", "*", "*">>}

\* the masked form keeps exactly the first 4 and the last 4 characters
KeepsEnds(token, form) ==
    /\ Len(form) = 11
    /\ SubSeq(form, 1, 4) = SubSeq(token, 1, 4)
    /\ SubSeq(form, 5, 7) = Ellipsis
    /\ SubSeq(form, 8, 11) = SubSeq(token, Len(token) - 3, Len(token))

\* C6 as stated: a credential of at most 12 characters is logged as the fixed
\* mask, a longer one as its first 4 and last 4 characters, and the logged form
\* never contains the full credential as a substring.
C6_MaskNeverContainsToken ==
    ret.done =>
        /\ (Len(arg) <= 12 => ret.out = FixedMask)
        /\ (Len(arg) > 12 => KeepsEnds(arg, ret.out))
        /\ ~Contains(ret.out, arg)

\* C6 amended: as above, but the logged form contains the full credential
\* exactly when the credential is empty or is one to three asterisks, that is,
\* a substring of the fixed mask itself.
C6_MaskToken ==
    ret.done =>
        /\ (Len(arg) <= 12 => ret.out = FixedMask)
        /\ (Len(arg) > 12 => KeepsEnds(arg, ret.out))
        /\ (Contains(ret.out, arg) <=> arg \in InsideFixedMask)

C6_Witness == ret.done /\ Len(arg) > 12 /\ ret.out # FixedMask

----------------------------------------------------------------------------
(* Claims about get_api_key_from_context *)

\* r is x with its surrounding whitespace removed
IsTrimOf(r, x) ==
    \E i \in 1..(Len(x) + 1) : \E j \in 0..Len(x) :
        /\ r = SubSeq(x, i, j)
        /\ \A k \in 1..Len(x) : (k < i \/ k > j) => x[k] \in Whitespace
        /\ r # <<>> => (r[1] \notin Whitespace /\ r[Len(r)] \notin Whitespace)

\* v starts with the scheme keyword "Bearer " in some letter casing
BearerPrefixed(v) ==
    /\ Len(v) >= 7
    /\ \A k \in 1..7 : LowerChar(v[k]) = BearerPrefix[k]

\* the spellings of the header names the resolver looks up
LookedUpAuthorization == {"authorization", "Authorization"}
LookedUpApiKey == {"x-api-key", "X-Api-Key"}

HasMapping == arg.has_request_context /\ arg.has_headers

\* the rule that produced the credential, as the resolver's log record tells
ByApiKeyRule(out) ==
    \E k \in 1..Len(out.logs) :
        out.logs[k].msg = "API key extracted from X-Api-Key header: "

\* C2: an Authorization value starting with "Bearer " in any letter casing
\* resolves to the rest of the value after the 7-character prefix, trimmed
\* of surrounding whitespace.
C2_BearerRemainderTrimmed ==
    (ret.done /\ HasMapping) =>
        \A key \in LookedUpAuthorization \cap DOMAIN arg.headers :
            BearerPrefixed(arg.headers[key]) =>
                /\ ~ret.out.raised
                /\ IsTrimOf(ret.out.value, SubSeq(arg.headers[key], 8, Len(arg.headers[key])))

C2_Witness ==
    /\ ret.done /\ HasMapping
    /\ "Authorization" \in DOMAIN arg.headers
    /\ arg.headers["Authorization"] = <<"b", "E", "a", "R", "e", "R", " ", " ", "k", " ">>
    /\ ret.out.value = <<"k">>

\* C3 as stated: an Authorization header that is present and not
\* Bearer-prefixed is returned whole and verbatim, also when X-Api-Key is
\* present; the X-Api-Key value is the credential only when no Authorization
\* header is present.
C3_AuthorizationBeforeApiKey ==
    (ret.done /\ HasMapping) =>
        /\ \A key \in LookedUpAuthorization \cap DOMAIN arg.headers :
                ~BearerPrefixed(arg.headers[key]) =>
                    (~ret.out.raised /\ ret.out.value = arg.headers[key])
        /\ (~ret.out.raised /\ ByApiKeyRule(ret.out)) =>
                LookedUpAuthorization \cap DOMAIN arg.headers = {}

\* C3 amended: a non-empty Authorization header that is not Bearer-prefixed is
\* returned whole and verbatim, also when X-Api-Key is present; the X-Api-Key
\* value is the credential, verbatim, only when the Authorization header is
\* absent or empty, and then whenever the X-Api-Key value is non-empty.
C3_NonEmptyAuthorizationBeforeApiKey ==
    (ret.done /\ HasMapping) =>
        /\ \A key \in LookedUpAuthorization \cap DOMAIN arg.headers :
                (arg.headers[key] # <<>> /\ ~BearerPrefixed(arg.headers[key])) =>
                    (~ret.out.raised /\ ret.out.value = arg.headers[key])
        /\ (~ret.out.raised /\ ByApiKeyRule(ret.out)) =>
                /\ \A key \in LookedUpAuthorization \cap DOMAIN arg.headers :
                        arg.headers[key] = <<>>
                /\ \E key \in LookedUpApiKey \cap DOMAIN arg.headers :
                        ret.out.value = arg.headers[key]
        /\ \A key \in LookedUpApiKey \cap DOMAIN arg.headers :
                ( /\ arg.headers[key] # <<>>
                  /\ \A a \in LookedUpAuthorization \cap DOMAIN arg.headers :
                        arg.headers[a] = <<>> ) =>
                    (~ret.out.raised /\ ByApiKeyRule(ret.out) /\ ret.out.value = arg.headers[key])

C3_Witness ==
    /\ ret.done /\ HasMapping
    /\ DOMAIN arg.headers = {"authorization", "x-api-key"}
    /\ arg.headers["authorization"] = <<"B", "a", "s", "i", "c", " ", "k">>
    /\ arg.headers["x-api-key"] = <<"k", "k">>
    /\ ret.out.value = <<"B", "a", "s", "i", "c", " ", "k">>

\* the lower-case spelling of a header name
LowerKey(key) == IF key \in AuthorizationKeys THEN "authorization" ELSE "x-api-key"

\* the same request context with every header name spelled in lower case
LowerKeys(ctx) ==
    [ctx EXCEPT !.headers =
        [k \in {LowerKey(key) : key \in DOMAIN ctx.headers} |->
            ctx.headers[CHOOSE key \in DOMAIN ctx.headers : LowerKey(key) = k]]]

\* C4: whatever the letter casing of the header names, the resolver gives the
\* credential it gives for their lower-case spelling.
C4_HeaderNamesCaseInsensitive ==
    ret.done =>
        LET lower == get_api_key_from_context(LowerKeys(arg))
        IN  /\ ret.out.raised = lower.raised
            /\ ret.out.value = lower.value

----------------------------------------------------------------------------
(* Claims about the tool handlers *)

Slots == DOMAIN pc

\* C1: when an invocation has returned, on whatever path, the connection of
\* the client built for it is closed.
C1_ConnectionReleasedOnReturn ==
    \A i \in Slots :
        (pc[i] = "returned" /\ client[i] # 0) => ~heap[client[i]]._client.established

\* the request carries neither header, under any spelling, or has no context
CarriesNoCredential(ctx) ==
    \/ ~ctx.has_request_context
    \/ ~ctx.has_headers
    \/ DOMAIN ctx.headers \cap (AuthorizationKeys \cup ApiKeyKeys) = {}

AuthenticationRequired(i) ==
    /\ result[i].kind = "ToolError"
    /\ result[i].message = <<AuthRequired>>

\* the arguments pass the checks made before credentials are looked at
ValidArguments(c) ==
    /\ (c.tool = "submit_task" /\ "instance_count" \in DOMAIN c.args)
            => c.args["instance_count"] >= 1
    /\ (c.tool = "get_task_logs" /\ "log_type" \in DOMAIN c.args)
            => c.args["log_type"] \in {"stdout", "stderr"}

C7_ExtractionLoggedMasked ==
    \A i \in Slots :
        client[i] # 0 =>
            LET credential == heap[client[i]].api_key
            IN  /\ \E k \in 1..Len(log[i]) : log[i][k].token = _mask_token(credential)
                /\ \A k \in 1..Len(log[i]) :
                        log[i][k].token # <<>> => ~Contains(log[i][k].token, credential)

\* C8: under every interleaving, each request of an invocation goes through
\* the client that invocation constructed and carries as Authorization exactly
\* the credential resolved from that invocation's headers; each invocation
\* issues its own single request; no two invocations hold the same client.
C8_OwnClientOwnCredential ==
    \A i \in Slots :
        LET resolved == get_api_key_from_context(call[i].ctx)
        IN  /\ \A k \in 1..Len(sent[i]) :
                    /\ sent[i][k].via = client[i]
                    /\ sent[i][k].headers.Authorization = resolved.value
                    /\ sent[i][k].headers.ContentType = "application/json"
            /\ (pc[i] # "pending" /\ ~resolved.raised) => (client[i] # 0 /\ Len(sent[i]) = 1)
            /\ client[i] # 0 =>
                    /\ heap[client[i]].api_key = resolved.value
                    /\ \A j \in Slots \ {i} : client[j] # client[i]

C8_Witness ==
    \E i, j \in Slots :
        /\ pc[i] = "awaiting" /\ pc[j] = "awaiting"
        /\ call[i].tool = "abort_task" /\ call[j].tool = "get_task"
        /\ call[i].args["task_uuid"] = call[j].args["task_uuid"]
        /\ sent[i][1].headers.Authorization = <<"k", "1">>
        /\ sent[j][1].headers.Authorization = <<"k", "2">>

\* the remote key the claim gives for each optional parameter
ClaimedKeys ==
    [profile |-> "profile", instance_count |-> "instanceCount", shortname |-> "shortname",
     resource_buckets |-> "resourceBuckets", result_bucket |-> "resultBucket",
     constants |-> "constants", tags |-> "tags"]

Payload(i) == sent[i][1].json.body

\* the supplied value is not the empty string, the empty list or zero
NonEmpty(param, value) ==
    IF param \in {"profile", "shortname", "result_bucket"} THEN value # ""
    ELSE IF param = "instance_count" THEN value # 0
    ELSE value # <<>>

\* C9 as stated: the payload has the key name, and for each optional
\* parameter its remote key, with the value unchanged, exactly when the caller
\* supplied the parameter; it has no other key.
C9_PayloadHasExactlySupplied ==
    \A i \in Slots :
        (call[i].tool = "submit_task" /\ sent[i] # <<>>) =>
            /\ "name" \in DOMAIN Payload(i)
            /\ Payload(i)["name"] = call[i].args["name"]
            /\ DOMAIN Payload(i) \subseteq {"name"} \cup {ClaimedKeys[p] : p \in DOMAIN ClaimedKeys}
            /\ \A p \in DOMAIN ClaimedKeys :
                    /\ (ClaimedKeys[p] \in DOMAIN Payload(i)) <=> (p \in DOMAIN call[i].args)
                    /\ (ClaimedKeys[p] \in DOMAIN Payload(i)) =>
                            Payload(i)[ClaimedKeys[p]] = call[i].args[p]

\* C9 amended: the payload has the key name, and for each optional parameter
\* its remote key, with the value unchanged, exactly when the caller supplied
\* the parameter with a non-empty value (not the empty string, the empty list
\* or zero); it has no other key, and no key holds null.
C9_PayloadHasExactlyNonEmpty ==
    \A i \in Slots :
        (call[i].tool = "submit_task" /\ sent[i] # <<>>) =>
            /\ "name" \in DOMAIN Payload(i)
            /\ Payload(i)["name"] = call[i].args["name"]
            /\ DOMAIN Payload(i) \subseteq {"name"} \cup {ClaimedKeys[p] : p \in DOMAIN ClaimedKeys}
            /\ \A p \in DOMAIN ClaimedKeys :
                    /\ (ClaimedKeys[p] \in DOMAIN Payload(i)) <=>
                            (p \in DOMAIN call[i].args /\ NonEmpty(p, call[i].args[p]))
                    /\ (ClaimedKeys[p] \in DOMAIN Payload(i)) =>
                            Payload(i)[ClaimedKeys[p]] = call[i].args[p]

C9_Witness ==
    \E i \in Slots :
        /\ sent[i] # <<>>
        /\ DOMAIN call[i].args = {"name"} \cup DOMAIN ClaimedKeys
        /\ call[i].args["tags"] = <<>>
        /\ call[i].args["instance_count"] = 2
        /\ DOMAIN Payload(i) = {"name", "profile", "instanceCount", "shortname",
                                "resourceBuckets", "resultBucket", "constants"}

----------------------------------------------------------------------------
(* Claims about get_task_logs *)

ValidationError == <<"log_type must be 'stdout' or 'stderr'">>

InvalidLogType(c) ==
    /\ c.tool = "get_task_logs"
    /\ "log_type" \in DOMAIN c.args
    /\ c.args["log_type"] \notin {"stdout", "stderr"}

\* C11: a get_task_logs invocation with a log type other than stdout or stderr
\* ends with the validation tool error, having resolved no credential,
\* constructed no client and issued no request; with the log type left out
\* the request it issues is the one for stdout.
C11_LogTypeValidatedFirst ==
    \A i \in Slots :
        /\ InvalidLogType(call[i]) =>
                /\ pc[i] # "awaiting"
                /\ client[i] = 0
                /\ heap = <<>>
                /\ transports = <<>>
                /\ sent[i] = <<>>
                /\ \A k \in 1..Len(log[i]) : log[i][k].token = <<>>
                /\ pc[i] = "returned" => result[i] = ToolError(ValidationError)
        /\ (call[i].tool = "get_task_logs" /\ "log_type" \notin DOMAIN call[i].args) =>
                /\ \A k \in 1..Len(sent[i]) : sent[i][k].path[4] = "stdout"
                /\ pc[i] = "returned" =>
                        /\ result[i] # ToolError(ValidationError)
                        /\ result[i] # Return(JText("No stderr output available"))

C11_Witness ==
    \E i \in Slots :
        /\ pc[i] = "returned"
        /\ InvalidLogType(call[i])
        /\ ~get_api_key_from_context(call[i].ctx).raised
        /\ result[i] = ToolError(ValidationError)
        /\ sent[i] = <<>>

----------------------------------------------------------------------------
(* Claims about the mapping of remote failures *)

\* the invocation got a response with a failure status
RemoteFailure(i) ==
    /\ pc[i] = "returned"
    /\ received[i] # <<>>
    /\ ~received[i][1].failed
    /\ received[i][1].status_code >= 400

\* the message the remote service supplied with a failure
RemoteMessage(response) ==
    IF response.json.kind = "object" /\ "message" \in DOMAIN response.json.obj
    THEN response.json.obj["message"]
    ELSE response.text

\* the identifier the caller asked for
Identifier(c) ==
    IF c.tool = "get_profile" THEN c.args["profile_name"] ELSE c.args["task_uuid"]

NotFoundMessages ==
    [get_task |-> "Task not found: ", get_task_logs |-> "Task or instance not found: ",
     abort_task |-> "Task not found: ", delete_task |-> "Task not found: ",
     get_profile |-> "Profile not found: "]

GenericMessages ==
    [list_tasks |-> "Failed to list tasks: ", get_task |-> "Failed to get task: ",
     submit_task |-> "Failed to submit task: ", get_task_logs |-> "Failed to get logs: ",
     abort_task |-> "Failed to abort task: ", delete_task |-> "Failed to delete task: ",
     list_profiles |-> "Failed to list profiles: ", get_profile |-> "Failed to get profile: "]

\* C12: a remote failure ends the invocation with a tool error chosen by the
\* handler and the status: 404 gives the not-found message with the requested
\* identifier for get_task, get_task_logs, abort_task, delete_task and
\* get_profile; 403 gives the cannot-abort message for abort_task only; every
\* other status, and every status for list_tasks, submit_task and
\* list_profiles, gives the handler's generic message with the remote message.
C12_RemoteFailureMapping ==
    \A i \in Slots :
        RemoteFailure(i) =>
            LET tool == call[i].tool
                status == received[i][1].status_code
            IN  IF status = 404 /\ tool \in DOMAIN NotFoundMessages
                THEN result[i] = ToolError(<<NotFoundMessages[tool], Identifier(call[i])>>)
                ELSE IF status = 403 /\ tool = "abort_task"
                THEN result[i] = ToolError(<<"Cannot abort task (may already be completed): ",
                                             Identifier(call[i])>>)
                ELSE result[i] = ToolError(<<GenericMessages[tool],
                                             RemoteMessage(received[i][1])>>)

C12_Witness ==
    \E i \in Slots :
        /\ RemoteFailure(i)
        /\ call[i].tool = "abort_task"
        /\ received[i][1].status_code = 403
        /\ result[i] = ToolError(<<"Cannot abort task (may already be completed): ", "uuid-2">>)

----------------------------------------------------------------------------
(* Claims about QarnotClient._request *)

\* the body parses as an object that has the field message
HasMessageField(response) ==
    response.json.kind = "object" /\ "message" \in DOMAIN response.json.obj

\* C13: the outcome of a response is decided in this order: a status of 400 or
\* above raises the API failure with the status and, as message, the body's
\* message field when the body parses with that field and the raw text
\* otherwise; else a status of 204 gives the void result whatever the body and
\* content type; else the body is decoded when the content type declares JSON
\* and is returned as raw text otherwise.
C13_ResponseOutcomeOrder ==
    (ret.done /\ ~arg.failed) =>
        IF arg.status_code >= 400
        THEN /\ ret.out.kind = "QarnotAPIError"
             /\ ret.out.status_code = arg.status_code
             /\ HasMessageField(arg) => ret.out.message = arg.json.obj["message"]
             /\ ~HasMessageField(arg) => ret.out.message = arg.text
        ELSE IF arg.status_code = 204
        THEN ret.out = Value(JNone)
        ELSE IF arg.content_type \in {"application/json", "application/json; charset=utf-8"}
        THEN /\ arg.json # Invalid => ret.out = Value(arg.json)
             /\ arg.json = Invalid => ret.out.kind # "value"
        ELSE ret.out = Value(JText(arg.text))

C13_Witness ==
    /\ ret.done
    /\ arg.status_code = 204
    /\ arg.content_type = "application/json"
    /\ arg.json = JObject(TaskA)
    /\ ret.out = Value(JNone)

----------------------------------------------------------------------------
(* Claims about the number of remote requests *)

\* the invocation passes credential resolution and local validation
Passes(c) == ValidArguments(c) /\ ~get_api_key_from_context(c.ctx).raised

\* C14: an invocation that passes credential resolution and local validation
\* has, from its remote call on, issued exactly one request, on a transport
\* that carried exactly that one; no invocation ever issues more than one; and
\* an invocation that got a failure status ended on that one response with a
\* tool error.
C14_ExactlyOneRequest ==
    \A i \in Slots :
        /\ Len(sent[i]) <= 1
        /\ Len(received[i]) <= Len(sent[i])
        /\ (Passes(call[i]) /\ pc[i] # "pending") =>
                /\ Len(sent[i]) = 1
                /\ transports[CurrentTransport(transports, client[i])].requests = 1
        /\ RemoteFailure(i) =>
                /\ result[i].kind = "ToolError"
                /\ Len(received[i]) = 1

C14_Witness ==
    \E i \in Slots :
        /\ Passes(call[i])
        /\ RemoteFailure(i)
        /\ call[i].tool = "get_task"
        /\ received[i][1].status_code = 500
        /\ Len(sent[i]) = 1
        /\ result[i].kind = "ToolError"

----------------------------------------------------------------------------
(* Claims about the logging of failures *)

\* a log record that reports a failure
FailureRecord(r) == r.level \in {"WARNING", "ERROR", "CRITICAL"}

\* C15: an invocation that ended with a tool error, whether from a remote
\* failure, a validation failure or a missing credential, has emitted a log
\* record of that failure.
C15_FailureLoggedBeforeToolError ==
    \A i \in Slots :
        (pc[i] = "returned" /\ result[i].kind = "ToolError") =>
            \E k \in 1..Len(log[i]) : FailureRecord(log[i][k])

----------------------------------------------------------------------------
(* Claims about the result of get_task_logs *)

\* the log fetch of the invocation succeeded
LogFetchSucceeded(i) ==
    /\ call[i].tool = "get_task_logs"
    /\ pc[i] = "returned"
    /\ received[i] # <<>>
    /\ ~received[i][1].failed
    /\ received[i][1].status_code < 400

Placeholders ==
    [stdout |-> "No stdout output available", stderr |-> "No stderr output available"]

RequestedLogType(c) ==
    IF "log_type" \in DOMAIN c.args THEN c.args["log_type"] ELSE "stdout"

\* C16: when the log fetch succeeds with a void result (204) or with an empty
\* text, get_task_logs returns the placeholder of the requested log type;
\* when it succeeds with a non-empty text it returns that text unchanged; it
\* never returns the empty string.
C16_EmptyLogsGivePlaceholder ==
    \A i \in Slots :
        LogFetchSucceeded(i) =>
            LET response == received[i][1]
                placeholder == Placeholders[RequestedLogType(call[i])]
                text == response.content_type = "text/plain"
            IN  /\ response.status_code = 204 => result[i] = Return(JText(placeholder))
                /\ (response.status_code # 204 /\ text /\ response.text = "") =>
                        result[i] = Return(JText(placeholder))
                /\ (response.status_code # 204 /\ text /\ response.text # "") =>
                        result[i] = Return(JText(response.text))
                /\ result[i] # Return(JText(""))

C16_Witness ==
    \E i \in Slots :
        /\ LogFetchSucceeded(i)
        /\ received[i][1].status_code = 204
        /\ RequestedLogType(call[i]) = "stderr"
        /\ result[i] = Return(JText("No stderr output available"))

----------------------------------------------------------------------------
(* Claims about the result of list_tasks *)

\* the remote service answered list_tasks with a list of tasks
TasksListed(i) ==
    /\ call[i].tool = "list_tasks"
    /\ pc[i] = "returned"
    /\ received[i] # <<>>
    /\ ~received[i][1].failed
    /\ received[i][1].status_code = 200
    /\ received[i][1].content_type # "text/plain"
    /\ received[i][1].json.kind = "list"

\* the fields of an entry and the remote field each is taken from
ClaimedFields ==
    [uuid |-> "uuid", name |-> "name", shortname |-> "shortname", state |-> "state",
     progress |-> "progress", profile |-> "profile", instance_count |-> "instanceCount",
     running_instance_count |-> "runningInstanceCount", creation_date |-> "creationDate",
     end_date |-> "endDate", tags |-> "tags"]

\* C17: list_tasks returns one entry per task of the remote list, in the
\* remote order, each entry having exactly the eleven fields, each field
\* holding the value of the remote task's field, or null when the remote task
\* lacks it.
C17_TasksProjectedInOrder ==
    \A i \in Slots :
        TasksListed(i) =>
            LET tasks == received[i][1].json.items
            IN  /\ result[i].kind = "return"
                /\ result[i].value.kind = "list"
                /\ Len(result[i].value.items) = Len(tasks)
                /\ \A k \in 1..Len(tasks) :
                        LET entry == result[i].value.items[k]
                        IN  /\ DOMAIN entry = DOMAIN ClaimedFields
                            /\ \A f \in DOMAIN ClaimedFields :
                                    entry[f] = IF ClaimedFields[f] \in DOMAIN tasks[k]
                                               THEN tasks[k][ClaimedFields[f]]
                                               ELSE PyNone

C17_Witness ==
    \E i \in Slots :
        /\ TasksListed(i)
        /\ received[i][1].json.items = <<TaskB, TaskA>>
        /\ result[i].value.items[1].uuid = "uuid-2"
        /\ result[i].value.items[1].shortname = PyNone
        /\ result[i].value.items[2].instance_count = "4"

----------------------------------------------------------------------------
(* Claims about the transport of one QarnotClient *)

OpenTransports == {k \in DOMAIN transports : transports[k].open}

\* at most one transport is open, the instance holds one exactly when one is
\* open, none exists before the first request, and each carries the
\* credential of the instance
OneTransport ==
    /\ Cardinality(OpenTransports) <= 1
    /\ heap[1]._client.established <=> OpenTransports # {}
    /\ OpenTransports \subseteq {Len(transports)}
    /\ Requests(transports) = 0 => transports = <<>>
    /\ \A k \in DOMAIN transports :
            /\ transports[k].headers.Authorization = heap[1].api_key
            /\ transports[k].requests >= 1

\* a request reuses the transport the instance holds and creates one when it
\* holds none
RequestStep ==
    Requests(transports') = Requests(transports) + 1 =>
        IF heap[1]._client.established
        THEN /\ Len(transports') = Len(transports)
             /\ transports'[Len(transports)].requests = transports[Len(transports)].requests + 1
        ELSE /\ Len(transports') = Len(transports) + 1
             /\ transports'[Len(transports')].open
             /\ transports'[Len(transports')].headers.Authorization = heap[1].api_key

\* close leaves no transport, and changes nothing when there was none
CloseStep ==
    Requests(transports') = Requests(transports) =>
        /\ ~heap'[1]._client.established
        /\ \A k \in DOMAIN transports' : ~transports'[k].open
        /\ ~heap[1]._client.established => UNCHANGED vars

\* C18: for one QarnotClient under any sequence of requests and close calls:
\* no transport exists before the first request; at most one is open at any
\* time and a request reuses the open one; close leaves the instance without
\* a transport and changes nothing when it has none; a request after close
\* creates a new transport carrying the same credential.
C18_TransportLifecycle == []OneTransport /\ [][RequestStep /\ CloseStep]_vars

C18_Witness ==
    /\ Len(transports) = 2
    /\ ~transports[1].open
    /\ transports[1].requests = 2
    /\ transports[2].open
    /\ transports[2].headers.Authorization = transports[1].headers.Authorization
    /\ heap[1]._client.established

----------------------------------------------------------------------------
(* Claims about empty credentials *)

\* C19: for every header mapping the resolver either raises the
\* Authentication-Required tool error or returns a credential that is not the
\* empty string.
C19_CredentialNeverEmpty ==
    ret.done =>
        IF ret.out.raised
        THEN ret.out.message = AuthRequired
        ELSE ret.out.value # <<>>

====
